---- MODULE Spec2Model ----
(***************************************************************************)
(* Model of the k-engine content migrator (migrate-projects.js and its     *)
(* twin migrate-posts.js) and of the translation resolver of the renderer. *)
(*                                                                         *)
(* A file name is the sequence of its dot-separated components             *)
(* ("index.md" is <<"index","md">>, "en" is <<"en">>), so that             *)
(* `${lang}.md`, endsWith('.md') and replace('.md','') are computed as the *)
(* code computes them.  A path is the sequence of names below the content  *)
(* root (projectsDir / postsDir); the root itself is <<>>.  The filesystem *)
(* is a function from the existing paths to nodes.  File contents are byte *)
(* sequences.                                                              *)
(***************************************************************************)
EXTENDS Integers, Sequences, FiniteSets, TLC

\* ------------------------------------------------------------------ bounds
\* A legacy tree holds at most MaxFiles files.
MaxFiles == 4
\* At most MaxBin of its index.md documents hold bytes that are not UTF-8.
MaxBin == 1
\* The migrator is run at most MaxRuns times in a row on the same tree.
MaxRuns == 2
\* A site holds at most MaxDocs documents.
MaxDocs == 2

VARIABLES
    fs,          \* the filesystem below the content root (the migrator) or below
                 \* config.sourceDir (the renderer): path -> node
    dirOrder,    \* the order in which this filesystem enumerates a directory
    dryRun,      \* the --dry-run flag of the current run
    run,         \* number of the current run
    pc,          \* position of the current run, or of the renderer
    languages,   \* detectLanguages() result; config.languages in the renderer
    projects,    \* collectProjects() result, a Map in insertion order
    i,           \* index of the item being staged        (for .. of projects)
    j,           \* index of the language version written (for .. of langVersions)
    allMedia,    \* allMedia of the item being staged, in insertion order
    k,           \* index into allMedia                    (for .. of allMedia)
    copiedMedia, \* copiedMedia of the item being staged
    b,           \* index of the language being backed up  (for .. of languages)
    newProjectDirs, \* readdirSync(tempDir) of the destructive phase
    p,           \* index into newProjectDirs
    fs0,         \* history: the filesystem when the current run began
    ops,         \* history: the filesystem mutations of the current run
    failedAt,    \* history: the position at which the run failed, or "none"
    out,         \* the per-item lines and warnings the run printed
    resolved,    \* the last call of the renderer and its result
    currentMdDir, \* the renderer's module-level `let currentMdDir`
    calls,       \* the convertMarkdownToHtml calls in progress, outermost first
    ended        \* history: how the call that ended last ended, currentMdDir
                 \* when it began and when it ended

vars == <<fs, dirOrder, dryRun, run, pc, languages, projects, i, j, allMedia, k,
          copiedMedia, b, newProjectDirs, p, fs0, ops, failedAt, out, resolved,
          currentMdDir, calls, ended>>

\* The renderer's directory context and the calls that use it
mdVars == <<currentMdDir, calls, ended>>
\* `let currentMdDir = ''` and no call made yet
NoDir == <<>>
NoEnd == [how |-> "none", began |-> NoDir, after |-> NoDir]
mdInit == currentMdDir = NoDir /\ calls = <<>> /\ ended = NoEnd

\* ------------------------------------------------------------------ names
INDEX_MD == <<"index", "md">>
NEW_STRUCTURE == <<"_new_structure">>
OLD_STRUCTURE_BACKUP == <<"_old_structure_backup">>

\* `${lang}.md`
langMd(lang) == Append(lang, "md")

\* file.endsWith('.md')
endsWithMd(file) == Len(file) >= 2 /\ file[Len(file)] = "md"

\* file.replace('.md', ''): the first occurrence is removed
RECURSIVE firstMd(_, _)
firstMd(file, n) ==
    IF n > Len(file) THEN 0
    ELSE IF file[n] = "md" THEN n
    ELSE firstMd(file, n + 1)

replaceMd(file) ==
    LET n == firstMd(file, 2)
    IN  IF n = 0 THEN file
        ELSE SubSeq(file, 1, n - 1) \o SubSeq(file, n + 1, Len(file))

\* Every name of the model, in ascending byte order (strcmp).
NameOrder ==
    << <<"_new_structure">>, <<"_old_structure_backup">>,
       <<"_old_structure_backup", "md">>, <<"a">>, <<"b">>, <<"en">>,
       <<"en", "md">>, <<"index", "md">>, <<"pic", "png">>, <<"posts">>,
       <<"projects">>, <<"ru">>, <<"ru", "md">>, <<"sub">>, <<"x", "png">> >>

Rank(name) == CHOOSE n \in 1..Len(NameOrder) : NameOrder[n] = name

\* A directory listing: the names of a set, in the filesystem's order.
RECURSIVE SortNames(_, _)
SortNames(N, ord) ==
    IF N = {} THEN <<>>
    ELSE LET m == CHOOSE x \in N : \A y \in N :
                     IF ord = "asc" THEN Rank(x) <= Rank(y) ELSE Rank(x) >= Rank(y)
         IN  <<m>> \o SortNames(N \ {m}, ord)

Range(s) == {s[n] : n \in 1..Len(s)}

\* ------------------------------------------------------------------ paths
dirname(path) == SubSeq(path, 1, Len(path) - 1)
basename(path) == path[Len(path)]
join(dir, name) == Append(dir, name)
IsPrefix(dir, path) == Len(dir) <= Len(path) /\ SubSeq(path, 1, Len(dir)) = dir
Prefixes(path) == {SubSeq(path, 1, n) : n \in 0..Len(path)}

tempDir == <<NEW_STRUCTURE>>
backupDir == <<OLD_STRUCTURE_BACKUP>>

\* ------------------------------------------------------------- filesystem
Dir == [kind |-> "dir", data |-> <<>>]
File(bytes) == [kind |-> "file", data |-> bytes]

existsSync(f, path) == path \in DOMAIN f
isDirectory(f, path) == path \in DOMAIN f /\ f[path].kind = "dir"
isFile(f, path) == path \in DOMAIN f /\ f[path].kind = "file"
Children(f, dir) == {q \in DOMAIN f : Len(q) = Len(dir) + 1 /\ IsPrefix(dir, q)}
Subtree(f, dir) == {q \in DOMAIN f : IsPrefix(dir, q)}

\* fs.readdirSync(dir): the entry names, in the filesystem's order
readdirSync(f, dir, ord) == SortNames({basename(q) : q \in Children(f, dir)}, ord)

\* fs.readdirSync(dir, {withFileTypes: true}).filter(d => d.isDirectory()).map(d => d.name)
readdirDirs(f, dir, ord) ==
    SortNames({basename(q) : q \in {c \in Children(f, dir) : f[c].kind = "dir"}}, ord)

\* mkdirSync(dir): fs.mkdirSync(dir, {recursive: true}) unless dir exists
mkdirSyncOk(f, dir) ==
    existsSync(f, dir) \/ \A q \in Prefixes(dir) : existsSync(f, q) => isDirectory(f, q)

mkdirSync(f, dir) ==
    IF existsSync(f, dir) THEN f
    ELSE [q \in DOMAIN f \cup Prefixes(dir) |-> IF q \in DOMAIN f THEN f[q] ELSE Dir]

\* fs.writeFileSync(path, data)
writeFileSyncOk(f, path) == isDirectory(f, dirname(path)) /\ ~isDirectory(f, path)

writeFileSync(f, path, bytes) ==
    [q \in DOMAIN f \cup {path} |-> IF q = path THEN File(bytes) ELSE f[q]]

\* fs.renameSync(src, dest) with rename(2) semantics: an existing destination is
\* replaced when it is a file (and src is one) or an empty directory (and src is one).
renameSyncOk(f, src, dest) ==
    /\ existsSync(f, src)
    /\ isDirectory(f, dirname(dest))
    /\ ~IsPrefix(src, dest)
    /\ existsSync(f, dest) =>
          \/ isFile(f, src) /\ isFile(f, dest)
          \/ isDirectory(f, src) /\ isDirectory(f, dest) /\ Children(f, dest) = {}

renameSync(f, src, dest) ==
    LET moved == Subtree(f, src)
        kept == DOMAIN f \ (moved \cup Subtree(f, dest))
        to(q) == dest \o SubSeq(q, Len(src) + 1, Len(q))
        from(q) == src \o SubSeq(q, Len(dest) + 1, Len(q))
    IN  [q \in kept \cup {to(m) : m \in moved} |->
            IF q \in kept THEN f[q] ELSE f[from(q)]]

\* fs.rmSync(dir, {recursive: true, force: true})
rmSync(f, dir) == [q \in DOMAIN f \ Subtree(f, dir) |-> f[q]]

\* ------------------------------------------------------------------ UTF-8
\* fs.readFileSync(path, 'utf-8'): bytes below 128 are themselves, the sequence
\* EF BF BD is U+FFFD, and every other byte is malformed and decodes to U+FFFD.
RECURSIVE utf8Decode(_)
utf8Decode(bytes) ==
    IF bytes = <<>> THEN <<>>
    ELSE IF bytes[1] < 128 THEN <<bytes[1]>> \o utf8Decode(Tail(bytes))
    ELSE IF Len(bytes) >= 3 /\ SubSeq(bytes, 1, 3) = <<239, 191, 189>>
         THEN <<65533>> \o utf8Decode(SubSeq(bytes, 4, Len(bytes)))
    ELSE <<65533>> \o utf8Decode(Tail(bytes))

\* fs.writeFileSync(path, string): the string is encoded as UTF-8
RECURSIVE utf8Encode(_)
utf8Encode(str) ==
    IF str = <<>> THEN <<>>
    ELSE (IF str[1] < 128 THEN <<str[1]>> ELSE <<239, 191, 189>>)
         \o utf8Encode(Tail(str))

\* ------------------------------------------------------------ legacy trees
\* The language folders, slug folders and file names a legacy tree is drawn from.
LegacyLangs == << <<"en">>, <<"ru">> >>
LegacySlugs == << <<"a">>, <<"b">> >>
LegacyFiles == << INDEX_MD, <<"pic", "png">>, <<"ru", "md">>, <<"x", "png">> >>

Index(seq, x) == CHOOSE n \in 1..Len(seq) : seq[n] = x

\* en/index.md (a document of the language folder itself), {lang}/{slug}/index.md,
\* {lang}/{slug}/pic.png, en/{slug}/ru.md (a sidecar named like a document),
\* en/a/sub/x.png (a sidecar directory), ru/b/index.md/x.png (an index.md that
\* is a directory, so that reading it as a document fails) and a/pic.png (a
\* directory of the content root that is no language folder and has the name of
\* a slug)
FileUniverse ==
    {<< <<"en">>, INDEX_MD >>}
    \cup {<<l, s, n>> : l \in Range(LegacyLangs), s \in Range(LegacySlugs),
                        n \in {INDEX_MD, <<"pic", "png">>}}
    \cup {<< <<"en">>, s, <<"ru", "md">> >> : s \in Range(LegacySlugs)}
    \cup {<< <<"en">>, <<"a">>, <<"sub">>, <<"x", "png">> >>,
          << <<"ru">>, <<"b">>, INDEX_MD, <<"x", "png">> >>,
          << <<"a">>, <<"pic", "png">> >>}

\* Every file has bytes of its own: an ASCII letter that identifies the legacy
\* path, after the byte 0x89 in an image and before the byte 0xFF in a document
\* that is not UTF-8.
FileId(path) ==
    IF path[1] \notin Range(LegacyLangs) THEN 89
    ELSE 65 + 12 * (Index(LegacyLangs, path[1]) - 1)
            + 4 * (IF Len(path) = 2 THEN 0 ELSE Index(LegacySlugs, path[2]))
            + (Index(LegacyFiles, basename(path)) - 1)

LegacyBytes(path, bin) ==
    IF basename(path)[Len(basename(path))] = "png" THEN <<137, FileId(path)>>
    ELSE IF path \in bin THEN <<FileId(path), 255>>
    ELSE <<FileId(path)>>

RECURSIVE SubsetsUpTo(_, _)
SubsetsUpTo(U, n) ==
    IF n = 0 THEN {{}}
    ELSE LET P == SubsetsUpTo(U, n - 1)
         IN  P \cup {S \cup {x} : S \in P, x \in U}

LegacyTree(F, bin) ==
    LET dirs == UNION {Prefixes(dirname(q)) : q \in F} \cup {<<>>}
    IN  [q \in dirs \cup F |-> IF q \in F THEN File(LegacyBytes(q, bin)) ELSE Dir]

\* No file of F lies below another file of F.
Consistent(F) == \A q \in F, r \in F : IsPrefix(q, r) => q = r

LegacyTrees ==
    UNION {{LegacyTree(F, bin) :
               bin \in SubsetsUpTo({q \in F : basename(q) = INDEX_MD}, MaxBin)} :
           F \in {G \in SubsetsUpTo(FileUniverse, MaxFiles) : Consistent(G)}}

\* The content root does not exist.
NoRoot == [q \in {} |-> Dir]

NoTable == [slug |-> <<>>, languages |-> <<>>, table |-> <<>>]

\* ------------------------------------------------------- detectLanguages
\* if (!fs.existsSync(projectsDir)) { ...; process.exit(1) }
\* Mutant of rootMissing: the content root is never checked.
rootMissing_never(f) == FALSE

rootMissing(f) == ~existsSync(f, <<>>)

\* Mutant of detectLanguages: every directory of the content root is a language.
detectLanguages_all(f, ord) == readdirDirs(f, <<>>, ord)

detectLanguages(f, ord) ==
    SelectSeq(readdirDirs(f, <<>>, ord),
              LAMBDA e : \E d \in Range(readdirDirs(f, <<e>>, ord)) :
                             existsSync(f, <<e, d, INDEX_MD>>))

\* ------------------------------------------------------- collectProjects
\* projects.get(slug).set(lang, {content, files, sourcePath}), creating the entry
setVersion(projs, slug, v) ==
    IF \E n \in 1..Len(projs) : projs[n].slug = slug
    THEN [n \in 1..Len(projs) |->
             IF projs[n].slug = slug
             THEN [projs[n] EXCEPT !.langVersions = Append(@, v)]
             ELSE projs[n]]
    ELSE Append(projs, [slug |-> slug, langVersions |-> <<v>>])

RECURSIVE collectSlugs(_, _, _, _, _)
\* Mutant of collectSlugs: a slug folder without index.md ends the loop.
collectSlugs_break(f, ord, lang, slugDirs, projs) ==
    IF slugDirs = <<>> THEN projs
    ELSE LET slug == Head(slugDirs)
             projectDir == <<lang, slug>>
             indexPath == join(projectDir, INDEX_MD)
         IN  IF ~existsSync(f, indexPath)
             THEN projs
             ELSE collectSlugs(f, ord, lang, Tail(slugDirs),
                      setVersion(projs, slug,
                          [lang |-> lang,
                           content |-> utf8Decode(f[indexPath].data),
                           files |-> SelectSeq(readdirSync(f, projectDir, ord),
                                               LAMBDA n : n # INDEX_MD),
                           sourcePath |-> projectDir]))

collectSlugs(f, ord, lang, slugDirs, projs) ==
    IF slugDirs = <<>> THEN projs
    ELSE LET slug == Head(slugDirs)
             projectDir == <<lang, slug>>
             indexPath == join(projectDir, INDEX_MD)
         IN  IF ~existsSync(f, indexPath)
             THEN collectSlugs(f, ord, lang, Tail(slugDirs), projs)
             ELSE collectSlugs(f, ord, lang, Tail(slugDirs),
                      setVersion(projs, slug,
                          [lang |-> lang,
                           content |-> utf8Decode(f[indexPath].data),
                           files |-> SelectSeq(readdirSync(f, projectDir, ord),
                                               LAMBDA n : n # INDEX_MD),
                           sourcePath |-> projectDir]))

RECURSIVE collectLangs(_, _, _, _)
collectLangs(f, ord, langs, projs) ==
    IF langs = <<>> THEN projs
    ELSE LET lang == Head(langs)
         IN  IF ~existsSync(f, <<lang>>)
             THEN collectLangs(f, ord, Tail(langs), projs)
             ELSE collectLangs(f, ord, Tail(langs),
                      collectSlugs(f, ord, lang, readdirDirs(f, <<lang>>, ord), projs))

collectProjects(f, ord, langs) == collectLangs(f, ord, langs, <<>>)

\* The warnings of collectProjects: the slug folders without index.md
RECURSIVE collectWarnings(_, _, _)
collectWarnings(f, ord, langs) ==
    IF langs = <<>> THEN <<>>
    ELSE LET lang == Head(langs)
             missing == SelectSeq(readdirDirs(f, <<lang>>, ord),
                            LAMBDA s : ~existsSync(f, <<lang, s, INDEX_MD>>))
         IN  [n \in 1..Len(missing) |->
                 [line |-> "warning", slug |-> missing[n], name |-> lang]]
             \o collectWarnings(f, ord, Tail(langs))

\* No read of collectProjects throws: a language path is a directory and every
\* index.md that exists is a file.
collectProjectsOk(f, ord, langs) ==
    \A lang \in Range(langs) :
        existsSync(f, <<lang>>) =>
            /\ isDirectory(f, <<lang>>)
            /\ \A s \in Range(readdirDirs(f, <<lang>>, ord)) :
                   existsSync(f, <<lang, s, INDEX_MD>>) => isFile(f, <<lang, s, INDEX_MD>>)

\* ------------------------------------------------------------------ state
Init ==
    /\ fs \in LegacyTrees \cup {NoRoot}
    /\ dirOrder \in {"asc", "desc"}
    /\ dryRun \in BOOLEAN
    /\ run = 1
    /\ pc = "start"
    /\ languages = <<>>
    /\ projects = <<>>
    /\ i = 1 /\ j = 1 /\ k = 1 /\ b = 1 /\ p = 1
    /\ allMedia = <<>>
    /\ copiedMedia = {}
    /\ newProjectDirs = <<>>
    /\ fs0 = fs
    /\ ops = <<>>
    /\ failedAt = "none"
    /\ out = <<>>
    /\ resolved = NoTable
    /\ mdInit

locals == <<i, j, allMedia, k, copiedMedia, b, newProjectDirs, p>>
inputs == <<dirOrder, dryRun, run, fs0>>

\* A filesystem call threw: migrate() rejects, main().catch prints the error and
\* the process exits with status 1.
Throw ==
    /\ pc' = "failed"
    /\ failedAt' = pc

Op(name, src, dest) == [op |-> name, src |-> src, dest |-> dest]

\* The mutations mkdirSync(dir) performs: none when dir exists
mkdirOps(f, dir) == IF existsSync(f, dir) THEN <<>> ELSE <<Op("mkdir", dir, dir)>>

\* ---------------------------------------------------------------- main()
\* const languages = detectLanguages(); exit 1 without the content root, exit 0
\* without a language folder
Detect ==
    /\ pc = "start"
    /\ IF rootMissing(fs)
       THEN /\ pc' = "exit1"
            /\ UNCHANGED languages
       ELSE /\ languages' = detectLanguages(fs, dirOrder)
            /\ pc' = IF languages' = <<>> THEN "exit0" ELSE "collect"
    /\ UNCHANGED <<fs, projects, locals, inputs, ops, failedAt, out, resolved, mdVars>>

\* const projects = collectProjects(languages)
Collect ==
    /\ pc = "collect"
    /\ IF collectProjectsOk(fs, dirOrder, languages)
       THEN /\ projects' = collectProjects(fs, dirOrder, languages)
            /\ out' = out \o collectWarnings(fs, dirOrder, languages)
            /\ pc' = "migrate"
            /\ UNCHANGED failedAt
       ELSE /\ Throw
            /\ UNCHANGED <<projects, out>>
    /\ UNCHANGED <<fs, languages, locals, inputs, ops, resolved, mdVars>>

\* ------------------------------------------------------------- migrate()
\* Mutant of afterItem: the staging loop is left after its first turn.
afterItem_break(n) ==
    IF n <= 1 THEN "item"
    ELSE IF dryRun THEN "dryDone"
    ELSE "backup"

\* The position after the body of `for (const [slug, langVersions] of projects)`
\* has run for item n - 1: the next item, or the end of staging.
afterItem(n) ==
    IF n <= Len(projects) THEN "item"
    ELSE IF dryRun THEN "dryDone"
    ELSE "backup"

\* Mutant of mutating: the guard is missing.
mutating_always == TRUE

\* if (!dryRun): the guard of every mutation of the staging loop
mutating == ~dryRun

\* if (!dryRun) mkdirSync(tempDir)
MkTempDir ==
    /\ pc = "migrate"
    /\ IF ~mutating
       THEN /\ pc' = afterItem(1)
            /\ UNCHANGED <<fs, ops, failedAt>>
       ELSE IF mkdirSyncOk(fs, tempDir)
       THEN /\ fs' = mkdirSync(fs, tempDir)
            /\ ops' = ops \o mkdirOps(fs, tempDir)
            /\ pc' = afterItem(1)
            /\ UNCHANGED failedAt
       ELSE /\ Throw
            /\ UNCHANGED <<fs, ops>>
    /\ i' = 1
    /\ UNCHANGED <<languages, projects, j, allMedia, k, copiedMedia, b,
                   newProjectDirs, p, inputs, out, resolved, mdVars>>

newProjectDir == join(tempDir, projects[i].slug)

\* const newProjectDir = path.join(tempDir, slug); if (!dryRun) mkdirSync(newProjectDir)
StageItem ==
    /\ pc = "item"
    /\ IF ~mutating
       THEN /\ pc' = "docs"
            /\ UNCHANGED <<fs, ops, failedAt>>
       ELSE IF mkdirSyncOk(fs, newProjectDir)
       THEN /\ fs' = mkdirSync(fs, newProjectDir)
            /\ ops' = ops \o mkdirOps(fs, newProjectDir)
            /\ pc' = "docs"
            /\ UNCHANGED failedAt
       ELSE /\ Throw
            /\ UNCHANGED <<fs, ops>>
    /\ j' = 1
    /\ allMedia' = <<>>
    /\ UNCHANGED <<languages, projects, i, k, copiedMedia, b, newProjectDirs, p,
                   inputs, out, resolved, mdVars>>

\* {file, source: path.join(data.sourcePath, file)} for each file of data.files
mediaOf(data) ==
    [n \in 1..Len(data.files) |->
        [file |-> data.files[n], source |-> join(data.sourcePath, data.files[n])]]

\* Mutant of addMedia: the media of a later version come first.
addMedia_front(all, data) == mediaOf(data) \o all

\* for (const file of data.files) allMedia.add({file, source}): a Set of objects
\* keeps every object added, in insertion order
addMedia(all, data) == all \o mediaOf(data)

\* One turn of `for (const [lang, data] of langVersions)`: the log line,
\* fs.writeFileSync(newFilePath, data.content) and the media of the version.
WriteDoc ==
    /\ pc = "docs"
    /\ LET data == projects[i].langVersions[j]
           newFilePath == join(newProjectDir, langMd(data.lang))
           media == addMedia(allMedia, data)
           last == j = Len(projects[i].langVersions)
       IN  /\ out' = Append(out, [line |-> "doc", slug |-> projects[i].slug,
                                  name |-> data.lang])
           /\ IF ~mutating \/ writeFileSyncOk(fs, newFilePath)
              THEN /\ fs' = IF ~mutating THEN fs
                            ELSE writeFileSync(fs, newFilePath, utf8Encode(data.content))
                   /\ ops' = IF ~mutating THEN ops
                             ELSE Append(ops, Op("write", data.sourcePath, newFilePath))
                   /\ allMedia' = media
                   /\ j' = j + 1
                   /\ pc' = IF ~last THEN "docs"
                            ELSE IF media = <<>> THEN afterItem(i + 1)
                            ELSE "media"
                   /\ i' = IF last /\ media = <<>> THEN i + 1 ELSE i
                   /\ UNCHANGED failedAt
              ELSE /\ Throw
                   /\ UNCHANGED <<fs, ops, allMedia, j, i>>
    /\ k' = 1
    /\ copiedMedia' = {}
    /\ UNCHANGED <<languages, projects, b, newProjectDirs, p, inputs, resolved, mdVars>>

\* copyFileSync(src, dest): mkdirSync(path.dirname(dest)); fs.copyFileSync(src, dest)
copyFileSyncOk(f, src, dest) ==
    /\ mkdirSyncOk(f, dirname(dest))
    /\ isFile(f, src)
    /\ ~isDirectory(f, dest)

\* Mutant of copyFileSync: the media file is moved instead of copied.
copyFileSync_move(f, src, dest) == renameSync(mkdirSync(f, dirname(dest)), src, dest)

copyFileSync(f, src, dest) ==
    writeFileSync(mkdirSync(f, dirname(dest)), dest, f[src].data)

copyFileSyncOps(f, src, dest) ==
    Append(mkdirOps(f, dirname(dest)), Op("copy", src, dest))

\* Mutant of skipMedia: the check of copiedMedia is missing.
skipMedia_never(file, copied) == FALSE

\* if (copiedMedia.has(file)) continue
skipMedia(file, copied) == file \in copied

\* One turn of `for (const {file, source} of allMedia)`
CopyMedia ==
    /\ pc = "media"
    /\ LET file == allMedia[k].file
           source == allMedia[k].source
           dest == join(newProjectDir, file)
           last == k = Len(allMedia)
           skip == skipMedia(file, copiedMedia)
       IN  IF skip \/ ~mutating \/ copyFileSyncOk(fs, source, dest)
           THEN /\ out' = IF skip THEN out
                          ELSE Append(out, [line |-> "media", slug |-> projects[i].slug,
                                            name |-> file])
                /\ fs' = IF skip \/ ~mutating THEN fs ELSE copyFileSync(fs, source, dest)
                /\ ops' = IF skip \/ ~mutating THEN ops
                          ELSE ops \o copyFileSyncOps(fs, source, dest)
                /\ copiedMedia' = copiedMedia \cup {file}
                /\ k' = k + 1
                /\ pc' = IF last THEN afterItem(i + 1) ELSE "media"
                /\ i' = IF last THEN i + 1 ELSE i
                /\ UNCHANGED failedAt
           ELSE /\ Throw
                /\ out' = Append(out, [line |-> "media", slug |-> projects[i].slug,
                                       name |-> file])
                /\ UNCHANGED <<fs, ops, copiedMedia, k, i>>
    /\ UNCHANGED <<languages, projects, j, allMedia, b, newProjectDirs, p, inputs,
                   resolved, mdVars>>

\* moveSync(src, dest): mkdirSync(path.dirname(dest)); fs.renameSync(src, dest)
moveSyncOk(f, src, dest) ==
    /\ mkdirSyncOk(f, dirname(dest))
    /\ renameSyncOk(mkdirSync(f, dirname(dest)), src, dest)

\* Mutant of moveSync: the source is deleted in place.
moveSync_delete(f, src, dest) == rmSync(mkdirSync(f, dirname(dest)), src)

moveSync(f, src, dest) == renameSync(mkdirSync(f, dirname(dest)), src, dest)

moveSyncOps(f, src, dest) == Append(mkdirOps(f, dirname(dest)), Op("rename", src, dest))

\* One turn of `for (const lang of languages)`: the language folder, when it
\* exists, is moved to _old_structure_backup/{lang}
BackupLang ==
    /\ pc = "backup"
    /\ LET lang == languages[b]
           langDir == <<lang>>
           backupLangDir == join(backupDir, lang)
       IN  IF ~existsSync(fs, langDir) \/ moveSyncOk(fs, langDir, backupLangDir)
           THEN /\ fs' = IF ~existsSync(fs, langDir) THEN fs
                         ELSE moveSync(fs, langDir, backupLangDir)
                /\ ops' = IF ~existsSync(fs, langDir) THEN ops
                          ELSE ops \o moveSyncOps(fs, langDir, backupLangDir)
                /\ b' = b + 1
                /\ pc' = IF b = Len(languages) THEN "readtemp" ELSE "backup"
                /\ UNCHANGED failedAt
           ELSE /\ Throw
                /\ UNCHANGED <<fs, ops, b>>
    /\ UNCHANGED <<languages, projects, i, j, allMedia, k, copiedMedia,
                   newProjectDirs, p, inputs, out, resolved, mdVars>>

\* const newProjectDirs = fs.readdirSync(tempDir, {withFileTypes: true})
\*     .filter(d => d.isDirectory()).map(d => d.name)
ReadTempDir ==
    /\ pc = "readtemp"
    /\ IF isDirectory(fs, tempDir)
       THEN /\ newProjectDirs' = readdirDirs(fs, tempDir, dirOrder)
            /\ pc' = IF newProjectDirs' = <<>> THEN "rmtemp" ELSE "promote"
            /\ UNCHANGED failedAt
       ELSE /\ Throw
            /\ UNCHANGED newProjectDirs
    /\ p' = 1
    /\ UNCHANGED <<fs, languages, projects, i, j, allMedia, k, copiedMedia, b,
                   inputs, ops, out, resolved, mdVars>>

\* One turn of `for (const slug of newProjectDirs)`: moveSync(src, dest)
PromoteItem ==
    /\ pc = "promote"
    /\ LET slug == newProjectDirs[p]
           src == join(tempDir, slug)
           dest == <<slug>>
       IN  IF moveSyncOk(fs, src, dest)
           THEN /\ fs' = moveSync(fs, src, dest)
                /\ ops' = ops \o moveSyncOps(fs, src, dest)
                /\ p' = p + 1
                /\ pc' = IF p = Len(newProjectDirs) THEN "rmtemp" ELSE "promote"
                /\ UNCHANGED failedAt
           ELSE /\ Throw
                /\ UNCHANGED <<fs, ops, p>>
    /\ UNCHANGED <<languages, projects, i, j, allMedia, k, copiedMedia, b,
                   newProjectDirs, inputs, out, resolved, mdVars>>

\* removeSync(tempDir): fs.rmSync(dir, {recursive: true, force: true}) when dir exists
RemoveTempDir ==
    /\ pc = "rmtemp"
    /\ fs' = IF existsSync(fs, tempDir) THEN rmSync(fs, tempDir) ELSE fs
    /\ ops' = IF existsSync(fs, tempDir) THEN Append(ops, Op("rm", tempDir, tempDir))
              ELSE ops
    /\ pc' = "done"
    /\ UNCHANGED <<languages, projects, locals, inputs, failedAt, out, resolved, mdVars>>

\* ------------------------------------------------------------ environment
Running == {"start", "collect", "migrate", "item", "docs", "media", "backup",
            "readtemp", "promote", "rmtemp"}
Staging == {"migrate", "item", "docs", "media"}
Destructive == {"backup", "readtemp", "promote", "rmtemp"}

\* The process is terminated, or the call about to be made fails for a reason
\* outside the tree (disk full, permission denied): the run ends where it is.
Crash ==
    /\ pc \in Running
    /\ Throw
    /\ UNCHANGED <<fs, languages, projects, locals, inputs, ops, out, resolved, mdVars>>

\* The migrator is run again on the tree a completed live migration left.
Rerun ==
    /\ pc = "done"
    /\ run < MaxRuns
    /\ run' = run + 1
    /\ dryRun' \in BOOLEAN
    /\ pc' = "start"
    /\ languages' = <<>>
    /\ projects' = <<>>
    /\ i' = 1 /\ j' = 1 /\ k' = 1 /\ b' = 1 /\ p' = 1
    /\ allMedia' = <<>>
    /\ copiedMedia' = {}
    /\ newProjectDirs' = <<>>
    /\ fs0' = fs
    /\ ops' = <<>>
    /\ failedAt' = "none"
    /\ out' = <<>>
    /\ resolved' = NoTable
    /\ UNCHANGED <<fs, dirOrder, mdVars>>

\* --------------------------------------------------- translation resolver
\* frontMatter(mdContent).attributes.slug: a document that opens with '-' (the
\* front-matter fence) has front matter, spelled by the character after the
\* fence: a letter of chr is "slug: <letter>", ':' is YAML that does not parse,
\* anything else is front matter that declares no slug.
chr(c) == IF c = 97 THEN "a" ELSE IF c = 98 THEN "b" ELSE IF c = 120 THEN "x" ELSE "?"

frontMatterThrows(str) == Len(str) >= 2 /\ str[1] = 45 /\ str[2] = 58

attributesSlug(str) ==
    IF Len(str) >= 2 /\ str[1] = 45 /\ chr(str[2]) # "?" THEN <<chr(str[2])>> ELSE <<>>

\* Mutant of translationOf: the slug of the front matter is ignored.
translationOf_folder(f, mdPath, folderSlug) == folderSlug

\* translations[lang] = attributes.slug || folderSlug, and folderSlug when the
\* read throws
translationOf(f, mdPath, folderSlug) ==
    IF ~isFile(f, mdPath) \/ frontMatterThrows(utf8Decode(f[mdPath].data)) THEN folderSlug
    ELSE LET slug == attributesSlug(utf8Decode(f[mdPath].data))
         IN  IF slug = <<>> THEN folderSlug ELSE slug

\* getPostTranslations(folderSlug) / getProjectTranslations(folderSlug), with
\* config.languages = configLanguages and the content root of the kind as f
getPostTranslations(f, configLanguages, folderSlug) ==
    LET postDir == <<folderSlug>>
        files == IF isDirectory(f, postDir)
                 THEN {basename(q) : q \in Children(f, postDir)} ELSE {}
        langs == {lang \in Range(configLanguages) :
                     \E file \in files : endsWithMd(file) /\ replaceMd(file) = lang}
    IN  IF Len(configLanguages) = 0 \/ ~existsSync(f, postDir) THEN <<>>
        ELSE [lang \in langs |->
                 translationOf(f, join(postDir,
                     CHOOSE file \in files : endsWithMd(file) /\ replaceMd(file) = lang),
                     folderSlug)]

\* The values config.languages takes.
Configs == {<<>>, << <<"en">> >>, << <<"en">>, <<"ru">> >>, << <<"ru">>, <<"en">> >>}

\* A page of the migrated tree is rendered: the translation table of an item
Resolve ==
    /\ pc = "done"
    /\ \E configLanguages \in Configs, folderSlug \in Range(LegacySlugs) :
          resolved' = [slug |-> folderSlug, languages |-> configLanguages,
                       table |-> getPostTranslations(fs, configLanguages, folderSlug)]
    /\ UNCHANGED <<fs, pc, languages, projects, locals, inputs, ops, failedAt, out,
                   mdVars>>

\* ---------------------------------------------------------- specification
Next ==
    \/ Detect
    \/ Collect
    \/ MkTempDir
    \/ StageItem
    \/ WriteDoc
    \/ CopyMedia
    \/ BackupLang
    \/ ReadTempDir
    \/ PromoteItem
    \/ RemoveTempDir
    \/ Crash
    \/ Rerun
    \/ Resolve

Spec == Init /\ [][Next]_vars

\* ------------------------------------------------- a run after an aborted run
\* The trees on which an aborted run is followed by another run
RetryUniverse ==
    {<< <<"en">>, <<"a">>, INDEX_MD >>, << <<"en">>, <<"a">>, <<"pic", "png">> >>,
     << <<"en">>, <<"b">>, INDEX_MD >>, << <<"ru">>, <<"a">>, INDEX_MD >>,
     << <<"ru">>, <<"a">>, <<"pic", "png">> >>}

RetryTrees == {LegacyTree(F, {}) : F \in SubsetsUpTo(RetryUniverse, MaxFiles)}

InitRetry == Init /\ fs \in RetryTrees

\* What the author may delete from the legacy tree between the runs: a slug
\* folder or a file of one
Deletable(f) ==
    {q \in DOMAIN f : Len(q) \in {2, 3} /\ q[1] \in Range(LegacyLangs)}

\* A live run was aborted in staging; the author deletes nothing or one entry of
\* the legacy tree and runs the live migration again. main() starts from
\* scratch: nothing but the tree is carried over.
Retry ==
    /\ pc = "failed"
    /\ failedAt \in Staging
    /\ ~dryRun
    /\ run < MaxRuns
    /\ \/ fs' = fs
       \/ \E q \in Deletable(fs) : fs' = rmSync(fs, q)
    /\ run' = run + 1
    /\ dryRun' = FALSE
    /\ pc' = "start"
    /\ languages' = <<>>
    /\ projects' = <<>>
    /\ i' = 1 /\ j' = 1 /\ k' = 1 /\ b' = 1 /\ p' = 1
    /\ allMedia' = <<>>
    /\ copiedMedia' = {}
    /\ newProjectDirs' = <<>>
    /\ fs0' = fs'
    /\ ops' = <<>>
    /\ failedAt' = "none"
    /\ out' = <<>>
    /\ resolved' = NoTable
    /\ UNCHANGED <<dirOrder, mdVars>>

NextRetry ==
    \/ Next
    \/ Retry

SpecRetry == InitRetry /\ [][NextRetry]_vars

\* =============================================================== renderer
\* The renderer reads the current layout below config.sourceDir:
\* posts/{folderSlug}/{lang}.md and projects/{folderSlug}/{lang}.md. In the
\* renderer, fs is the tree below config.sourceDir and languages is
\* config.languages || [].

\* The documents an author keeps on the site
SiteDocs ==
    {<< <<"posts">>, <<"a">>, <<"en", "md">> >>,
     << <<"posts">>, <<"a">>, <<"ru", "md">> >>,
     << <<"posts">>, <<"b">>, <<"en", "md">> >>,
     << <<"projects">>, <<"a">>, <<"en", "md">> >>,
     << <<"projects">>, <<"a">>, <<"ru", "md">> >>}

\* Their contents: front matter "slug: x", front matter without a slug, and
\* front matter whose YAML does not parse
DocSlugX == <<45, 120>>
DocNoSlug == <<45, 116>>
DocBadYaml == <<45, 58>>
DocBodies == {DocSlugX, DocNoSlug, DocBadYaml}

SiteTree(docs) ==
    LET dirs == UNION {Prefixes(dirname(q)) : q \in DOMAIN docs} \cup {<<>>}
    IN  [q \in dirs \cup DOMAIN docs |-> IF q \in DOMAIN docs THEN File(docs[q]) ELSE Dir]

Sites ==
    UNION {{SiteTree(docs) : docs \in [D -> DocBodies]} :
           D \in SubsetsUpTo(SiteDocs, MaxDocs)}

\* path.join(config.sourceDir, 'posts') / path.join(config.sourceDir, 'projects'):
\* the tree below that directory
contentRoot(site, dir) ==
    [q \in {SubSeq(r, 2, Len(r)) : r \in Subtree(site, <<dir>>)} |-> site[<<dir>> \o q]]

postsRoot(site) == contentRoot(site, <<"posts">>)
projectsRoot(site) == contentRoot(site, <<"projects">>)

getProjectTranslations(f, configLanguages, folderSlug) ==
    getPostTranslations(f, configLanguages, folderSlug)

\* Mutant of objectKeys: every configured language is a key.
objectKeys_config(f, ord, configLanguages, folderSlug) == configLanguages

\* Object.keys(translations): the keys in the order the loop over
\* fs.readdirSync(postDir) inserted them
objectKeys(f, ord, configLanguages, folderSlug) ==
    IF Len(configLanguages) = 0 \/ ~isDirectory(f, <<folderSlug>>) THEN <<>>
    ELSE LET files == SelectSeq(readdirSync(f, <<folderSlug>>, ord),
                          LAMBDA file : endsWithMd(file)
                                        /\ replaceMd(file) \in Range(configLanguages))
         IN  [n \in 1..Len(files) |-> replaceMd(files[n])]

\* ------------------------------------------------- generateLanguageSwitcher
\* typeToPath[type] || ''
typeToPath(type) ==
    IF type = "post" THEN <<"posts">>
    ELSE IF type = "project" THEN <<"projects">>
    ELSE <<>>

\* Mutant of switcherPrefix: the default language is 'en', not languages[0].
switcherPrefix_en(configLanguages, lang) == IF lang = <<"en">> THEN <<>> ELSE <<lang>>

\* const urlPrefix = isDefault ? '' : `/${lang}` with defaultLang = languages[0]
switcherPrefix(configLanguages, lang) ==
    IF lang = configLanguages[1] THEN <<>> ELSE <<lang>>

\* Mutant of langSlugOf: every entry is built from the current slug.
langSlugOf_current(translations, lang, slug) == slug

\* const langSlug = translations[lang] || slug
langSlugOf(translations, lang, slug) ==
    IF lang \in DOMAIN translations THEN translations[lang] ELSE slug

\* A URL is the sequence of its path segments: `${urlPrefix}/${pathSegment}/${langSlug}/`
\* or `${urlPrefix}/`
switcherHref(configLanguages, translations, lang, slug, type) ==
    IF typeToPath(type) # <<>>
    THEN switcherPrefix(configLanguages, lang)
         \o <<typeToPath(type), langSlugOf(translations, lang, slug)>>
    ELSE switcherPrefix(configLanguages, lang)

\* Mutant of enoughLangs: a switcher is built for a single language too.
enoughLangs_one(availableLangs) == Len(availableLangs) >= 1

\* if (availableLangs.length <= 1) return ''
enoughLangs(availableLangs) == Len(availableLangs) > 1

\* The switcher is the sequence of its entries, <<>> for ''. An entry is the
\* <span class="lang-current"> of the current language or the <a href> of another.
\* folderSlug = <<>> is null.
generateLanguageSwitcher(site, ord, configLanguages, currentLang, slug, type, folderSlug) ==
    LET lookupSlug == IF folderSlug # <<>> THEN folderSlug ELSE slug
        translations ==
            IF type = "post"
            THEN getPostTranslations(postsRoot(site), configLanguages, lookupSlug)
            ELSE IF type = "project"
            THEN getProjectTranslations(projectsRoot(site), configLanguages, lookupSlug)
            ELSE <<>>
        availableLangs ==
            IF type = "post"
            THEN objectKeys(postsRoot(site), ord, configLanguages, lookupSlug)
            ELSE IF type = "project"
            THEN objectKeys(projectsRoot(site), ord, configLanguages, lookupSlug)
            ELSE configLanguages
    IN  IF Len(configLanguages) <= 1 THEN <<>>
        ELSE IF ~enoughLangs(availableLangs) THEN <<>>
        ELSE [n \in 1..Len(availableLangs) |->
                 LET lang == availableLangs[n]
                 IN  IF lang = currentLang
                     THEN [lang |-> lang, link |-> FALSE, href |-> <<>>]
                     ELSE [lang |-> lang, link |-> TRUE,
                           href |-> switcherHref(configLanguages, translations,
                                                 lang, slug, type)]]

\* --------------------------------------------------- convertMarkdownToHtml
\* langOptions.lang = <<>> is undefined, langOptions.type = "" is undefined.
\* langOptions.type || 'page'
typeOrPage(type) == IF type # "" THEN type ELSE "page"

langPrefix(configLanguages, lang) ==
    LET defaultLang == IF configLanguages # <<>> THEN configLanguages[1] ELSE <<"en">>
        currentLang == IF lang # <<>> THEN lang ELSE defaultLang
    IN  IF currentLang = defaultLang THEN <<>> ELSE <<currentLang>>

convertMarkdownToHtml(site, ord, configLanguages, langOptions) ==
    LET defaultLang == IF configLanguages # <<>> THEN configLanguages[1] ELSE <<"en">>
        currentLang == IF langOptions.lang # <<>> THEN langOptions.lang ELSE defaultLang
    IN  [langPrefix |-> langPrefix(configLanguages, langOptions.lang),
         langSwitcher |->
             IF Len(configLanguages) > 1
             THEN generateLanguageSwitcher(site, ord, configLanguages, currentLang,
                      langOptions.slug,
                      typeOrPage(langOptions.type),
                      langOptions.folderSlug)
             ELSE <<>>]

\* ------------------------------------------------ generatePostsMarkdownList
\* The list is the sequence of its entries. No document of SiteDocs declares a
\* date, so metas.sort keeps the order of readdirSync. lang = <<>> is null.
postsListPrefix(configLanguages, lang) ==
    LET defaultLang == IF configLanguages # <<>> THEN configLanguages[1] ELSE <<>>
        isDefaultLang == lang = <<>> \/ lang = defaultLang
    IN  IF isDefaultLang THEN <<>> ELSE <<lang>>

\* try { frontMatter(fs.readFileSync(mdPath, 'utf-8')) } catch { return null }
readable(f, mdPath) == isFile(f, mdPath) /\ ~frontMatterThrows(utf8Decode(f[mdPath].data))

generatePostsMarkdownList(site, ord, configLanguages, lang) ==
    LET defaultLang == IF configLanguages # <<>> THEN configLanguages[1] ELSE <<>>
        currentLang == IF lang # <<>> THEN lang
                       ELSE IF defaultLang # <<>> THEN defaultLang ELSE <<"en">>
        root == postsRoot(site)
        metas == SelectSeq(readdirDirs(root, <<>>, ord),
                     LAMBDA folderSlug : readable(root, <<folderSlug, langMd(currentLang)>>))
    IN  IF ~existsSync(site, << <<"posts">> >>) THEN <<>>
        ELSE [n \in 1..Len(metas) |->
                 [folderSlug |-> metas[n],
                  href |-> postsListPrefix(configLanguages, lang)
                           \o << <<"posts">>,
                                 translationOf(root, <<metas[n], langMd(currentLang)>>,
                                               metas[n]) >>]]

\* --------------------------------------------------- generateProjectsMarkup
projectsPrefix(configLanguages, lang) ==
    LET defaultLang == IF configLanguages # <<>> THEN configLanguages[1] ELSE <<"en">>
        currentLang == IF lang # <<>> THEN lang ELSE defaultLang
    IN  IF currentLang = defaultLang THEN <<>> ELSE <<currentLang>>

\* frontMatter(fs.readFileSync(mdPath, 'utf-8')) is not guarded: the call throws
\* when a document of the language does not parse.
generateProjectsMarkupOk(site, ord, configLanguages, lang) ==
    LET defaultLang == IF configLanguages # <<>> THEN configLanguages[1] ELSE <<"en">>
        currentLang == IF lang # <<>> THEN lang ELSE defaultLang
        root == projectsRoot(site)
    IN  \A folderSlug \in Range(readdirDirs(root, <<>>, ord)) :
            existsSync(root, <<folderSlug, langMd(currentLang)>>)
                => readable(root, <<folderSlug, langMd(currentLang)>>)

\* The anchors of the markup, the featured one (metas[0]: no document of SiteDocs
\* is featured) before those of the grid
generateProjectsMarkup(site, ord, configLanguages, lang) ==
    LET defaultLang == IF configLanguages # <<>> THEN configLanguages[1] ELSE <<"en">>
        currentLang == IF lang # <<>> THEN lang ELSE defaultLang
        root == projectsRoot(site)
        metas == SelectSeq(readdirDirs(root, <<>>, ord),
                     LAMBDA folderSlug : existsSync(root, <<folderSlug, langMd(currentLang)>>))
    IN  IF ~existsSync(site, << <<"projects">> >>) THEN <<>>
        ELSE [n \in 1..Len(metas) |->
                 [folderSlug |-> metas[n],
                  href |-> projectsPrefix(configLanguages, lang)
                           \o << <<"projects">>,
                                 translationOf(root, <<metas[n], langMd(currentLang)>>,
                                               metas[n]) >>]]

\* ------------------------------------------------------- the renderer's steps
\* The result of the last call: the function called, its arguments and what it
\* returned (for generateProjectsMarkup, also whether it threw).
NoCall == [call |-> "none", lang |-> <<>>, type |-> "", slug |-> <<>>,
           folderSlug |-> <<>>, result |-> <<>>]

Called(name, lang, type, slug, folderSlug, result) ==
    [call |-> name, lang |-> lang, type |-> type, slug |-> slug,
     folderSlug |-> folderSlug, result |-> result]

migratorVars ==
    <<dryRun, run, projects, i, j, allMedia, k, copiedMedia, b, newProjectDirs, p,
      fs0, ops, failedAt, out>>

InitNav ==
    /\ fs \in Sites
    /\ dirOrder \in {"asc", "desc"}
    /\ languages \in Configs
    /\ pc = "idle"
    /\ resolved = NoCall
    /\ dryRun = FALSE
    /\ run = 1
    /\ projects = <<>>
    /\ i = 1 /\ j = 1 /\ k = 1 /\ b = 1 /\ p = 1
    /\ allMedia = <<>>
    /\ copiedMedia = {}
    /\ newProjectDirs = <<>>
    /\ fs0 = NoRoot
    /\ ops = <<>>
    /\ failedAt = "none"
    /\ out = <<>>
    /\ mdInit

\* The renderer is called on the site as it stands after the author's last edit;
\* resolved holds the one call observed since.
Callable == pc \in {"idle", "edited"}
Fresh == pc \in {"called", "recalled"}

\* The documents of the site
Documents(site) == {q \in DOMAIN site : site[q].kind = "file"}

\* What is remembered of the last call once the site is edited: the table of a
\* resolver call across one edit, nothing after that. A resolver call that
\* follows a resolver call and an edit ends in "recalled".
afterEdit ==
    IF Fresh /\ resolved.call = "getTranslations"
    THEN pc' = "edited" /\ UNCHANGED resolved
    ELSE pc' = "idle" /\ resolved' = NoCall

\* The author adds a document or rewrites one.
WriteDocument ==
    /\ \E path \in SiteDocs, body \in DocBodies :
          /\ Cardinality(Documents(fs) \cup {path}) <= MaxDocs
          /\ ~(isFile(fs, path) /\ fs[path].data = body)
          /\ fs' = writeFileSync(mkdirSync(fs, dirname(path)), path, body)
    /\ afterEdit
    /\ UNCHANGED <<dirOrder, languages, migratorVars, mdVars>>

\* The author deletes a document.
DeleteDocument ==
    /\ \E path \in Documents(fs) : fs' = rmSync(fs, path)
    /\ afterEdit
    /\ UNCHANGED <<dirOrder, languages, migratorVars, mdVars>>

\* Mutant of resolveCall: the table of the last call is returned again when the
\* same item is asked for.
resolveCall_cached(last, site, configLanguages, type, folderSlug) ==
    IF last.call = "getTranslations" /\ last.type = type /\ last.folderSlug = folderSlug
    THEN last.result
    ELSE IF type = "post"
    THEN getPostTranslations(postsRoot(site), configLanguages, folderSlug)
    ELSE getProjectTranslations(projectsRoot(site), configLanguages, folderSlug)

\* getPostTranslations(folderSlug) or getProjectTranslations(folderSlug) as the
\* module exports them: nothing of the last call enters the result
resolveCall(last, site, configLanguages, type, folderSlug) ==
    IF type = "post"
    THEN getPostTranslations(postsRoot(site), configLanguages, folderSlug)
    ELSE getProjectTranslations(projectsRoot(site), configLanguages, folderSlug)

SiteSlugs == {<<"a">>, <<"b">>}

GetTranslations ==
    /\ Callable
    /\ \E type \in {"post", "project"}, folderSlug \in SiteSlugs :
          resolved' = Called("getTranslations", <<>>, type, <<>>, folderSlug,
                          resolveCall(resolved, fs, languages, type, folderSlug))
    /\ pc' = IF pc = "edited" THEN "recalled" ELSE "called"
    /\ UNCHANGED <<fs, dirOrder, languages, migratorVars, mdVars>>

\* The languages a caller renders: a configured one, or none given
RenderLangs == Range(languages) \cup {<<>>}

\* The langOptions.slug and langOptions.folderSlug a caller passes: the folder
\* with the folder slug or with the public slug x, the slug alone, and neither
RenderItems ==
    {[slug |-> <<"a">>, folderSlug |-> <<"a">>],
     [slug |-> <<"x">>, folderSlug |-> <<"a">>],
     [slug |-> <<"b">>, folderSlug |-> <<>>],
     [slug |-> <<>>, folderSlug |-> <<>>]}

ConvertMarkdownToHtml ==
    /\ Callable
    /\ \E lang \in RenderLangs, type \in {"post", "project", ""},
          item \in RenderItems :
          /\ type \in {"post", "project"} => item.slug # <<>>
          /\ resolved' = Called("convertMarkdownToHtml", lang, type, item.slug,
                             item.folderSlug,
                             convertMarkdownToHtml(fs, dirOrder, languages,
                                 [lang |-> lang, type |-> type, slug |-> item.slug,
                                  folderSlug |-> item.folderSlug]))
    /\ pc' = "called"
    /\ UNCHANGED <<fs, dirOrder, languages, migratorVars, mdVars>>

GeneratePostsMarkdownList ==
    /\ Callable
    /\ \E lang \in RenderLangs :
          resolved' = Called("generatePostsMarkdownList", lang, "post", <<>>, <<>>,
                          generatePostsMarkdownList(fs, dirOrder, languages, lang))
    /\ pc' = "called"
    /\ UNCHANGED <<fs, dirOrder, languages, migratorVars, mdVars>>

GenerateProjectsMarkup ==
    /\ Callable
    /\ \E lang \in RenderLangs :
          resolved' = Called("generateProjectsMarkup", lang, "project", <<>>, <<>>,
                          IF generateProjectsMarkupOk(fs, dirOrder, languages, lang)
                          THEN [threw |-> FALSE,
                                anchors |-> generateProjectsMarkup(fs, dirOrder,
                                                languages, lang)]
                          ELSE [threw |-> TRUE, anchors |-> <<>>])
    /\ pc' = "called"
    /\ UNCHANGED <<fs, dirOrder, languages, migratorVars, mdVars>>

NextNav ==
    \/ WriteDocument
    \/ DeleteDocument
    \/ GetTranslations
    \/ ConvertMarkdownToHtml
    \/ GeneratePostsMarkdownList
    \/ GenerateProjectsMarkup

SpecNav == InitNav /\ [][NextNav]_vars

\* ------------------------------------------------- the directory context
\* convertMarkdownToHtml(markdown, metadata, mdDirRel, ...) opens with
\*     const prevDir = currentMdDir;
\*     currentMdDir = mdDirRel || '';
\*     const content = marked.parse(markdown);
\*     currentMdDir = prevDir;
\* renderer.image reads currentMdDir while marked.parse runs. The calls above
\* (ConvertMarkdownToHtml) are those whose markdown parses: they leave
\* currentMdDir as it was. Here the call is followed statement by statement,
\* with marked.parse either returning or throwing, and with calls made while
\* another call's marked.parse is running.
MaxDepth == 3

\* The mdDirRel a caller passes: none (undefined, '' after `||`), or the
\* directory of a document of the site
MdDirs == {NoDir, << <<"posts">>, <<"a">> >>, << <<"projects">>, <<"a">> >>}

\* An exception raised by marked.parse of an inner call is passing through the
\* marked.parse of the call that encloses it
Unwinding == ended.how = "threw" /\ calls # <<>>

\* currentMdDir = prevDir
restoreDir(prevDir) == prevDir

\* const prevDir = currentMdDir; currentMdDir = mdDirRel || '';
EnterConvert ==
    /\ pc = "idle"
    /\ ~Unwinding
    /\ Len(calls) < MaxDepth
    /\ \E mdDirRel \in MdDirs :
          /\ calls' = Append(calls, [mdDirRel |-> mdDirRel, prevDir |-> currentMdDir])
          /\ currentMdDir' = mdDirRel
    /\ ended' = NoEnd
    /\ UNCHANGED <<fs, dirOrder, languages, pc, resolved, migratorVars>>

\* marked.parse(markdown) returned: currentMdDir = prevDir, and the call goes on
\* to its return
ParseReturns ==
    /\ pc = "idle"
    /\ ~Unwinding
    /\ calls # <<>>
    /\ LET call == calls[Len(calls)]
       IN  /\ currentMdDir' = restoreDir(call.prevDir)
           /\ ended' = [how |-> "returned", began |-> call.prevDir,
                        after |-> currentMdDir']
    /\ calls' = SubSeq(calls, 1, Len(calls) - 1)
    /\ UNCHANGED <<fs, dirOrder, languages, pc, resolved, migratorVars>>

\* marked.parse(markdown) threw (markdown is no string, or the image callback
\* threw): no statement of the call runs after it, the exception leaves the call
ParseThrows ==
    /\ pc = "idle"
    /\ calls # <<>>
    /\ LET call == calls[Len(calls)]
       IN  ended' = [how |-> "threw", began |-> call.prevDir, after |-> currentMdDir]
    /\ calls' = SubSeq(calls, 1, Len(calls) - 1)
    /\ UNCHANGED <<fs, dirOrder, languages, pc, resolved, migratorVars, currentMdDir>>

InitMd == InitNav /\ fs = SiteTree(<<>>) /\ languages = <<>> /\ dirOrder = "asc"

NextMd ==
    \/ EnterConvert
    \/ ParseReturns
    \/ ParseThrows

SpecMd == InitMd /\ [][NextMd]_vars

\* ================================================================ claims
\* What the run started from, read off fs0 and the detected languages.
Opn == 1..Len(ops)

\* The language variants of a slug: the detected languages with {lang}/{slug}/index.md
Variants(slug) ==
    {lang \in Range(languages) : existsSync(fs0, <<lang, slug, INDEX_MD>>)}

\* The slugs with index.md under at least one detected language folder
CollectedSlugs ==
    {q[2] : q \in {r \in DOMAIN fs0 : Len(r) = 3 /\ r[3] = INDEX_MD
                                      /\ r[1] \in Range(languages)}}

\* The sidecar names of a slug: every entry other than index.md of its variants
Sidecars(slug) ==
    UNION {{basename(q) : q \in Children(fs0, <<lang, slug>>)} \ {INDEX_MD} :
           lang \in Variants(slug)}

\* The original files: every file under a detected language folder
Originals ==
    {q \in DOMAIN fs0 : Len(q) >= 1 /\ q[1] \in Range(languages) /\ fs0[q].kind = "file"}

\* Phase of a mutation: 1 staging, 2 backup, 3 promotion, 4 removal of the staging area
OpPhase(o) ==
    IF o.op = "rm" THEN 4
    ELSE IF o.op = "rename" THEN (IF IsPrefix(tempDir, o.src) THEN 3 ELSE 2)
    ELSE IF o.op = "mkdir" /\ o.dest = backupDir THEN 2
    ELSE 1

AllStaged ==
    \A n \in 1..Len(projects) : \A m \in 1..Len(projects[n].langVersions) :
        LET slug == projects[n].slug
            data == projects[n].langVersions[m]
        IN  /\ \E o \in Opn : /\ ops[o].op = "write"
                              /\ ops[o].dest = <<NEW_STRUCTURE, slug, langMd(data.lang)>>
            /\ \A file \in Range(data.files) :
                   \E o \in Opn : /\ ops[o].op = "copy"
                                  /\ ops[o].dest = <<NEW_STRUCTURE, slug, file>>

AllBackedUp ==
    \A lang \in Range(languages) :
        \E o \in Opn : /\ ops[o].op = "rename"
                       /\ ops[o].src = <<lang>>
                       /\ ops[o].dest = <<OLD_STRUCTURE_BACKUP, lang>>

AllPromoted ==
    \A n \in 1..Len(projects) :
        \E o \in Opn : /\ ops[o].op = "rename"
                       /\ ops[o].src = <<NEW_STRUCTURE, projects[n].slug>>
                       /\ ops[o].dest = <<projects[n].slug>>

\* C1: in a live run the mutations occur in phase order (staging, backup of the
\* language folders, promotion of the staged items, removal of the staging area);
\* the first backup comes after every document of every collected item is written
\* and every media file copied, the first promotion after every detected language
\* folder is moved to the backup, and the removal after every item is promoted.
C1_PhaseOrder ==
    /\ \A m \in Opn : \A n \in Opn : m < n => OpPhase(ops[m]) <= OpPhase(ops[n])
    /\ (\E o \in Opn : OpPhase(ops[o]) >= 2) => AllStaged
    /\ (\E o \in Opn : OpPhase(ops[o]) >= 3) => AllBackedUp
    /\ (\E o \in Opn : OpPhase(ops[o]) = 4) => AllPromoted

C1_Witness ==
    /\ pc = "done"
    /\ Len(projects) >= 2
    /\ Len(languages) = 2
    /\ \E o \in Opn : ops[o].op = "copy"

Untouched(dir) ==
    /\ Subtree(fs, dir) = Subtree(fs0, dir)
    /\ \A q \in Subtree(fs0, dir) : fs[q] = fs0[q]

\* C2: when the run fails while staging (a filesystem call throws, or the process
\* is terminated), nothing of the destructive phase has happened: every detected
\* language folder is where it was with the files and contents it had, and no
\* backup directory has been created.
C2_StagingFailureSafe ==
    (pc = "failed" /\ failedAt \in Staging) =>
        /\ \A lang \in Range(languages) : Untouched(<<lang>>)
        /\ existsSync(fs, backupDir) => existsSync(fs0, backupDir)
        /\ \A o \in Opn : OpPhase(ops[o]) = 1

\* a copy of a sidecar directory threw after documents had been written
C2_Witness ==
    /\ pc = "failed"
    /\ failedAt = "media"
    /\ ~dryRun
    /\ isDirectory(fs, allMedia[k].source)
    /\ \E o \in Opn : ops[o].op = "write"

Kept(q) == isFile(fs, q) /\ fs[q] = fs0[q]
BackedUp(q) == isFile(fs, backupDir \o q) /\ fs[backupDir \o q] = fs0[q]

\* C3: in every state of a run, also after a failure at any step, every file that
\* was under a detected language folder exists with its original content at its
\* original path or at the same relative path under _old_structure_backup; after
\* a completed run all of them are under the backup directory.
C3_NoDataLost ==
    \A q \in Originals :
        /\ Kept(q) \/ BackedUp(q)
        /\ pc = "done" => BackedUp(q) /\ ~existsSync(fs, q)

\* the run ended between the moves of two language folders
C3_Witness ==
    /\ pc = "failed"
    /\ failedAt = "backup"
    /\ Len(languages) = 2
    /\ b = 2
    /\ \E q \in Originals : Kept(q)
    /\ \E q \in Originals : BackedUp(q)

\* C4: after a completed live migration {S}/{L}.md has exactly the content of the
\* legacy {L}/{S}/index.md, for every slug S and detected language L with that file.
C4_DocumentsPreserved ==
    pc = "done" =>
        \A slug \in CollectedSlugs : \A lang \in Variants(slug) :
            /\ isFile(fs, <<slug, langMd(lang)>>)
            /\ fs[<<slug, langMd(lang)>>].data = fs0[<<lang, slug, INDEX_MD>>].data

\* The item directories a run moved into the content root
Promoted == {ops[o].dest[1] : o \in {n \in Opn : OpPhase(ops[n]) = 3}}

\* C5: after a completed live migration the promoted item directories are the
\* slugs with index.md under a detected language folder, and the {lang}.md
\* documents of each are those of the detected languages that had the slug.
C5_NoItemLostOrInvented ==
    pc = "done" =>
        /\ Promoted = CollectedSlugs
        /\ \A slug \in CollectedSlugs :
               {lang \in Range(languages) : existsSync(fs, <<slug, langMd(lang)>>)}
                   = Variants(slug)

\* C6: a dry run leaves the filesystem as it was, whatever it reaches, and in
\* either mode the filesystem is as it was until collection has ended.
C6_DryRunNoMutation ==
    /\ dryRun => fs = fs0 /\ ops = <<>>
    /\ (pc \in {"start", "collect", "migrate", "exit0", "exit1"}
            \/ failedAt \in {"start", "collect"}) => fs = fs0 /\ ops = <<>>

C6_Witness ==
    /\ pc = "dryDone"
    /\ Len(projects) = 2
    /\ \E n \in 1..Len(out) : out[n].line = "media"

Copies(slug, name) ==
    {o \in Opn : ops[o].op = "copy" /\ ops[o].dest = <<NEW_STRUCTURE, slug, name>>}

\* C7: after a completed live migration, for every collected item every sidecar
\* name of its variants is in the item directory, the directory holds nothing but
\* those and the documents of its variants, and each sidecar name was copied by
\* exactly one copy operation.
C7_MediaOncePerItem ==
    pc = "done" =>
        \A slug \in CollectedSlugs :
            LET entries == {basename(q) : q \in Children(fs, <<slug>>)}
                docs == {langMd(lang) : lang \in Variants(slug)}
            IN  /\ Sidecars(slug) \subseteq entries
                /\ entries \ docs \subseteq Sidecars(slug)
                /\ \A name \in Sidecars(slug) : Cardinality(Copies(slug, name)) = 1
                /\ \A name \in entries \ Sidecars(slug) : Copies(slug, name) = {}

\* a media name of two language variants of one item
C7_Witness ==
    /\ pc = "done"
    /\ \E slug \in CollectedSlugs : \E name \in Sidecars(slug) :
           Cardinality({lang \in Variants(slug) :
                           existsSync(fs0, <<lang, slug, name>>)}) = 2

\* The first language, in the order of the languages list, whose variant of the
\* slug has the sidecar
FirstSource(slug, name) ==
    LET has == {n \in 1..Len(languages) :
                   /\ languages[n] \in Variants(slug)
                   /\ existsSync(fs0, <<languages[n], slug, name>>)}
    IN  languages[CHOOSE n \in has : \A m \in has : n <= m]

\* C8: after a completed live migration a media file of an item has the content
\* of the sidecar of the first language, in the order of the languages list,
\* whose variant has a file of that name.
C8_FirstSeenWins ==
    pc = "done" =>
        \A slug \in CollectedSlugs : \A name \in Sidecars(slug) :
            /\ isFile(fs, <<slug, name>>)
            /\ fs[<<slug, name>>].data = fs0[<<FirstSource(slug, name), slug, name>>].data

\* the first language enumerated is the alphabetically last, and its sidecar won
C8_Witness ==
    /\ pc = "done"
    /\ languages = << <<"ru">>, <<"en">> >>
    /\ existsSync(fs0, << <<"en">>, <<"a">>, <<"pic", "png">> >>)
    /\ existsSync(fs0, << <<"ru">>, <<"a">>, <<"pic", "png">> >>)
    /\ <<"ru">> \in Variants(<<"a">>) /\ <<"en">> \in Variants(<<"a">>)
    /\ isFile(fs, << <<"a">>, <<"pic", "png">> >>)
    /\ fs[<< <<"a">>, <<"pic", "png">> >>].data
           = fs0[<< <<"ru">>, <<"a">>, <<"pic", "png">> >>].data

\* C9: with every detected language configured, the translation table resolved
\* for a collected slug after a completed live migration has the languages of the
\* slug's legacy documents as its keys.
C9_RoundTrip ==
    (/\ resolved # NoTable
     /\ Range(languages) \subseteq Range(resolved.languages)
     /\ resolved.slug \in CollectedSlugs)
        => DOMAIN resolved.table = Variants(resolved.slug)

\* C10: a run on the tree a completed live migration left detects no language
\* folder and writes nothing.
C10_Idempotent ==
    run > 1 =>
        /\ pc # "start" => languages = <<>>
        /\ ops = <<>>
        /\ fs = fs0


\* The run has got past detectLanguages / past collectProjects.
Detected == pc \notin {"start", "exit1"} /\ failedAt # "start"
CollectionDone ==
    pc \notin {"start", "collect", "exit0", "exit1"} /\ failedAt \notin {"start", "collect"}

\* The directories of the content root with a subdirectory that holds index.md
LanguageFolders ==
    {q[1] : q \in {r \in DOMAIN fs0 : Len(r) = 3 /\ r[3] = INDEX_MD}}

\* C11: detectLanguages returns exactly the directories of the content root that
\* have a subdirectory holding index.md, each once; when there is none the run
\* stops with nothing collected and nothing written.
C11_DetectedLanguages ==
    /\ Detected =>
          /\ Range(languages) = LanguageFolders
          /\ Cardinality(Range(languages)) = Len(languages)
    /\ pc = "exit0" =>
          /\ languages = <<>> /\ LanguageFolders = {}
          /\ projects = <<>> /\ ops = <<>> /\ out = <<>> /\ fs = fs0

\* A language is detected next to a root directory that is not one.
C11_Witness ==
    /\ Detected
    /\ languages # <<>>
    /\ \E q \in Children(fs0, <<>>) :
          isDirectory(fs0, q) /\ q[1] \notin Range(languages)

\* C12: without the content root the run ends with the error exit and has
\* detected, collected, printed and created nothing.
C12_NoRootFails ==
    ~existsSync(fs0, <<>>) =>
        /\ pc \in {"start", "exit1", "failed"}
        /\ pc = "failed" => failedAt = "start"
        /\ languages = <<>> /\ projects = <<>> /\ ops = <<>> /\ out = <<>>
        /\ fs = fs0

C12_Witness == pc = "exit1" /\ ~existsSync(fs0, <<>>)

\* The slug folders of the detected languages, and whether {lang}/{slug} is a
\* version of the collected item slug
SlugFolders ==
    {q \in DOMAIN fs0 : Len(q) = 2 /\ q[1] \in Range(languages) /\ isDirectory(fs0, q)}
HasVersion(slug, lang) ==
    \E n \in 1..Len(projects) :
        /\ projects[n].slug = slug
        /\ \E v \in 1..Len(projects[n].langVersions) :
              projects[n].langVersions[v].lang = lang

\* C13: a slug folder without index.md is reported by a warning and is no
\* variant of any item, none of its files is copied as media, and every slug
\* folder with index.md is collected and, by a completed live run, migrated.
C13_MissingIndexSkipped ==
    CollectionDone =>
        \A q \in SlugFolders :
            IF ~existsSync(fs0, join(q, INDEX_MD))
            THEN /\ [line |-> "warning", slug |-> q[2], name |-> q[1]] \in Range(out)
                 /\ ~HasVersion(q[2], q[1])
                 /\ \A n \in Opn : ops[n].op = "copy" => ~IsPrefix(q, ops[n].src)
            ELSE /\ HasVersion(q[2], q[1])
                 /\ (pc = "done" /\ ~dryRun) => isFile(fs, <<q[2], langMd(q[1])>>)

\* A live run completes on a tree where a language has a slug folder with files
\* but no index.md next to a slug folder with index.md.
C13_Witness ==
    /\ pc = "done" /\ ~dryRun
    /\ \E q \in SlugFolders, r \in SlugFolders :
          /\ q[1] = r[1]
          /\ ~existsSync(fs0, join(q, INDEX_MD))
          /\ Children(fs0, q) # {}
          /\ isFile(fs0, join(r, INDEX_MD))
          /\ isFile(fs, <<r[2], langMd(r[1])>>)

\* C14: when a legacy item cannot be read, collection still ends normally and
\* every item that can be read is collected.
C14_ReadErrorTolerated ==
    (/\ pc \notin {"start", "collect", "exit0", "exit1"}
     /\ failedAt # "start"
     /\ ~collectProjectsOk(fs0, dirOrder, languages))
        => /\ failedAt # "collect"
           /\ \A q \in SlugFolders :
                  isFile(fs0, join(q, INDEX_MD)) => HasVersion(q[2], q[1])

\* ------------------------------------------------------ renderer claims
\* What is on disk for an item, read off the site without the resolver.
ItemDir(type) == IF type = "post" THEN <<"posts">> ELSE <<"projects">>
DocPath(type, folderSlug, lang) == <<ItemDir(type), folderSlug, langMd(lang)>>

\* The configured languages with a document of the item, and the public slug of
\* such a document: x under "slug: x", the folder slug under any other content
TranslatedLangs(type, folderSlug) ==
    {lang \in Range(languages) : existsSync(fs, DocPath(type, folderSlug, lang))}
PublicSlug(type, folderSlug, lang) ==
    IF fs[DocPath(type, folderSlug, lang)].data = DocSlugX THEN <<"x">> ELSE folderSlug
ExpectedTable(type, folderSlug) ==
    [lang \in TranslatedLangs(type, folderSlug) |-> PublicSlug(type, folderSlug, lang)]

\* C15: the table of getPostTranslations / getProjectTranslations has exactly the
\* configured languages with {folderSlug}/{lang}.md as keys, each mapped to the
\* slug its front matter declares and to the folder slug without one or when the
\* front matter does not parse; it is empty without the item directory or
\* without configured languages.
C15_TranslationTable ==
    (Fresh /\ resolved.call = "getTranslations") =>
        /\ DOMAIN resolved.result = TranslatedLangs(resolved.type, resolved.folderSlug)
        /\ \A lang \in DOMAIN resolved.result :
               resolved.result[lang] = PublicSlug(resolved.type, resolved.folderSlug, lang)
        /\ (languages = <<>> \/ ~existsSync(fs, <<ItemDir(resolved.type), resolved.folderSlug>>))
               => DOMAIN resolved.result = {}

\* A table with a declared slug next to a folder slug that stands in for front
\* matter that does not parse.
C15_Witness ==
    /\ Fresh /\ resolved.call = "getTranslations"
    /\ resolved.type = "post" /\ resolved.folderSlug = <<"a">>
    /\ DOMAIN resolved.result = {<<"en">>, <<"ru">>}
    /\ resolved.result[<<"en">>] = <<"x">>
    /\ resolved.result[<<"ru">>] = <<"a">>
    /\ fs[DocPath("post", <<"a">>, <<"ru">>)].data = DocBadYaml

\* C16: a resolver call that follows an earlier call and an edit of the site
\* returns the table of the site as it is now.
C16_NoStateBetweenCalls ==
    pc = "recalled" =>
        resolved.result = ExpectedTable(resolved.type, resolved.folderSlug)

\* The second call sees a document the edit has removed: the item directory is
\* left empty, which only a deletion produces.
C16_Witness ==
    /\ pc = "recalled"
    /\ isDirectory(fs, <<ItemDir(resolved.type), resolved.folderSlug>>)
    /\ Children(fs, <<ItemDir(resolved.type), resolved.folderSlug>>) = {}
    /\ languages # <<>>
    /\ DOMAIN resolved.result = {}

\* The switcher of the last convertMarkdownToHtml call, the kind it was built
\* for, the folder it looked up and the language of the page
Switcher == resolved.result.langSwitcher
Kind == typeOrPage(resolved.type)
LookupSlug == IF resolved.folderSlug # <<>> THEN resolved.folderSlug ELSE resolved.slug
PageLang == IF resolved.lang # <<>> THEN resolved.lang ELSE languages[1]
Converted == Fresh /\ resolved.call = "convertMarkdownToHtml"

\* C17: in a switcher the entry of the page's language is no link and every
\* other entry is a link; the link of a post or project ends in the public slug
\* of the linked language's own document, under posts/ or projects/, and the
\* link of a page carries no slug.
C17_OwnSlugLinks ==
    Converted =>
        \A n \in 1..Len(Switcher) :
            LET e == Switcher[n]
            IN  /\ e.link <=> e.lang # PageLang
                /\ (e.link /\ Kind \in {"post", "project"}) =>
                      /\ Len(e.href) >= 2
                      /\ e.href[Len(e.href) - 1] = ItemDir(Kind)
                      /\ existsSync(fs, DocPath(Kind, LookupSlug, e.lang))
                      /\ e.href[Len(e.href)] = PublicSlug(Kind, LookupSlug, e.lang)
                /\ (e.link /\ Kind = "page") => resolved.slug \notin Range(e.href)

\* The page in ru has the slug a; the link to en ends in x, the slug of en.md.
C17_Witness ==
    /\ Converted /\ Kind = "post"
    /\ resolved.lang = <<"ru">> /\ resolved.slug = <<"a">>
    /\ \E n \in 1..Len(Switcher) : \E m \in 1..Len(Switcher) :
          /\ Switcher[n].lang = <<"en">> /\ Switcher[n].link
          /\ Switcher[n].href[Len(Switcher[n].href)] = <<"x">>
          /\ Switcher[m].lang = <<"ru">> /\ ~Switcher[m].link

\* The prefix of a URL in language lang; a call without a language renders the
\* default language.
UrlPrefix(lang) ==
    IF lang = <<>> \/ (languages # <<>> /\ lang = languages[1]) THEN <<>> ELSE <<lang>>

\* C18: the URLs of the switcher, of the posts list and of the projects markup
\* and langPrefix carry no prefix for the first configured language and /{lang}
\* for any other; the switcher targets {prefix}/posts/{slug}/,
\* {prefix}/projects/{slug}/ and, for a page, {prefix}/.
C18_UrlPrefixRule ==
    Fresh =>
        /\ resolved.call = "convertMarkdownToHtml" =>
              /\ resolved.result.langPrefix = UrlPrefix(resolved.lang)
              /\ \A n \in 1..Len(Switcher) :
                     LET e == Switcher[n]
                     IN  e.link =>
                             IF Kind = "page" THEN e.href = UrlPrefix(e.lang)
                             ELSE e.href = UrlPrefix(e.lang)
                                           \o <<ItemDir(Kind), e.href[Len(e.href)]>>
        /\ resolved.call = "generatePostsMarkdownList" =>
              \A n \in 1..Len(resolved.result) :
                  LET href == resolved.result[n].href
                  IN  href = UrlPrefix(resolved.lang) \o << <<"posts">>, href[Len(href)] >>
        /\ resolved.call = "generateProjectsMarkup" =>
              \A n \in 1..Len(resolved.result.anchors) :
                  LET href == resolved.result.anchors[n].href
                  IN  href = UrlPrefix(resolved.lang) \o << <<"projects">>, href[Len(href)] >>

\* With ru configured first, the page in ru has no prefix and links to /en/posts/a/.
C18_Witness ==
    /\ Converted /\ Kind = "post"
    /\ languages = << <<"ru">>, <<"en">> >>
    /\ resolved.lang = <<"ru">>
    /\ resolved.result.langPrefix = <<>>
    /\ \E n \in 1..Len(Switcher) :
          Switcher[n].link /\ Switcher[n].href = << <<"en">>, <<"posts">>, <<"a">> >>

\* The languages in which the item of the last call has a document on disk: for
\* a post or a project below its folder, for a page anywhere on the site.
AllLangs == {<<"en">>, <<"ru">>}
ItemLangs ==
    IF Kind = "page"
    THEN {lang \in AllLangs :
             \E q \in DOMAIN fs : Len(q) = 3 /\ q[2] = LookupSlug /\ q[3] = langMd(lang)}
    ELSE {lang \in AllLangs : existsSync(fs, DocPath(Kind, LookupSlug, lang))}

\* C19, as stated: whatever the kind, the switcher is empty when fewer than two
\* languages have a document of the item.
C19_SingleLanguageGuard ==
    (Converted /\ Cardinality(ItemLangs) < 2) => Switcher = <<>>

\* C19, amended: the switcher of a post or project is empty when fewer than two
\* languages have a document of the item, however many languages are
\* configured; the switcher of a page is empty when fewer than two languages
\* are configured.
C19_SingleLanguageGuardOfItems ==
    Converted =>
        /\ (Kind \in {"post", "project"} /\ Cardinality(ItemLangs) < 2) => Switcher = <<>>
        /\ (Kind = "page" /\ Len(languages) < 2) => Switcher = <<>>

\* Two languages are configured and the post has its en.md only.
C19_Witness ==
    /\ Converted /\ Kind = "post"
    /\ Len(languages) = 2
    /\ ItemLangs = {<<"en">>}
    /\ Switcher = <<>>

\* C20, as stated: whatever the kind, every link of the switcher leads to a
\* language in which the item has a document on disk.
C20_LinksResolve ==
    Converted =>
        \A n \in 1..Len(Switcher) : Switcher[n].link => Switcher[n].lang \in ItemLangs

\* C20, amended: every link of the switcher of a post or project leads to a
\* language whose document of the item is on disk at the call, and carries the
\* public slug of that document.
C20_ItemLinksResolve ==
    (Converted /\ Kind \in {"post", "project"}) =>
        \A n \in 1..Len(Switcher) :
            LET e == Switcher[n]
            IN  e.link =>
                    /\ isFile(fs, DocPath(Kind, LookupSlug, e.lang))
                    /\ e.href = UrlPrefix(e.lang)
                                \o <<ItemDir(Kind), PublicSlug(Kind, LookupSlug, e.lang)>>

\* A project in two languages, rendered in en: the link to ru leads to ru.md.
C20_Witness ==
    /\ Converted /\ Kind = "project"
    /\ resolved.lang = <<"en">>
    /\ \E n \in 1..Len(Switcher) :
          /\ Switcher[n].link /\ Switcher[n].lang = <<"ru">>
          /\ isFile(fs, DocPath("project", LookupSlug, <<"ru">>))

\* ------------------------------------------------------- dry run and live run
\* The per-item lines a run has printed
ItemLines == SelectSeq(out, LAMBDA l : l.line \in {"doc", "media"})

\* The per-item lines of a staging loop that runs to its end over the collected
\* projects: for each item its documents, then each media name once, first seen
\* first. The collected projects depend on the tree and on its directory order
\* only, so this is what the dry run and the live run of one tree have to print.
RECURSIVE FirstSeen(_, _)
FirstSeen(names, seen) ==
    IF names = <<>> THEN <<>>
    ELSE IF Head(names) \in seen THEN FirstSeen(Tail(names), seen)
    ELSE <<Head(names)>> \o FirstSeen(Tail(names), seen \cup {Head(names)})

RECURSIVE FilesOf(_)
FilesOf(langVersions) ==
    IF langVersions = <<>> THEN <<>>
    ELSE Head(langVersions).files \o FilesOf(Tail(langVersions))

LinesOf(item) ==
    [n \in 1..Len(item.langVersions) |->
        [line |-> "doc", slug |-> item.slug, name |-> item.langVersions[n].lang]]
    \o LET names == FirstSeen(FilesOf(item.langVersions), {})
       IN  [n \in 1..Len(names) |->
               [line |-> "media", slug |-> item.slug, name |-> names[n]]]

RECURSIVE ExpectedLines(_)
ExpectedLines(projs) ==
    IF projs = <<>> THEN <<>>
    ELSE LinesOf(Head(projs)) \o ExpectedLines(Tail(projs))

\* The live run failed in staging on the tree itself: the call it made cannot
\* succeed on fs, and the line printed before a write or a copy is its last line.
LastLine(l) == out # <<>> /\ out[Len(out)] = l

StagingFailed ==
    /\ ~dryRun
    /\ pc = "failed"
    /\ \/ failedAt = "migrate" /\ ~mkdirSyncOk(fs, tempDir)
       \/ failedAt = "item" /\ ~mkdirSyncOk(fs, newProjectDir)
       \/ /\ failedAt = "docs"
          /\ ~writeFileSyncOk(fs, join(newProjectDir,
                                       langMd(projects[i].langVersions[j].lang)))
          /\ LastLine([line |-> "doc", slug |-> projects[i].slug,
                       name |-> projects[i].langVersions[j].lang])
       \/ /\ failedAt = "media"
          /\ ~copyFileSyncOk(fs, allMedia[k].source, join(newProjectDir, allMedia[k].file))
          /\ LastLine([line |-> "media", slug |-> projects[i].slug,
                       name |-> allMedia[k].file])

\* C21: the dry run of a tree prints the per-item lines of the whole staging
\* loop, and so does the live run of that tree when its staging has ended, by
\* completing or by failing on the tree.
C21_DryRunLogEqualsLive ==
    (\/ pc = "dryDone"
     \/ ~dryRun /\ pc \in Destructive \cup {"done"}
     \/ StagingFailed)
        => ItemLines = ExpectedLines(projects)

\* The live run failed in the destructive phase on the tree itself: the move or
\* the listing it made cannot succeed on fs.
DestructiveFailed ==
    /\ ~dryRun
    /\ pc = "failed"
    /\ \/ /\ failedAt = "backup"
          /\ existsSync(fs, <<languages[b]>>)
          /\ ~moveSyncOk(fs, <<languages[b]>>, join(backupDir, languages[b]))
       \/ failedAt = "readtemp" /\ ~isDirectory(fs, tempDir)
       \/ /\ failedAt = "promote"
          /\ ~moveSyncOk(fs, join(tempDir, newProjectDirs[p]), <<newProjectDirs[p]>>)

\* C22: a live run that has staged every item does not fail on the tree in the
\* destructive phase, and ends with _new_structure removed, every detected
\* language folder under _old_structure_backup and gone from the content root,
\* and an item directory in the content root for every collected slug.
C22_DestructiveCompletes ==
    /\ ~DestructiveFailed
    /\ (pc = "done" /\ ~dryRun) =>
          /\ ~existsSync(fs, tempDir)
          /\ \A lang \in Range(languages) :
                 ~existsSync(fs, <<lang>>) /\ isDirectory(fs, join(backupDir, lang))
          /\ \A n \in 1..Len(projects) : isDirectory(fs, <<projects[n].slug>>)

\* C23: every item directory a run moves from _new_structure into the content
\* root is the directory of an item this run collected, and every file in it was
\* written or copied there by this run.
C23_OnlyCollectedPromoted ==
    \A n \in Opn :
        (ops[n].op = "rename" /\ IsPrefix(tempDir, ops[n].src)) =>
            /\ \E m \in 1..Len(projects) : <<projects[m].slug>> = ops[n].dest
            /\ \A q \in Subtree(fs, ops[n].dest) :
                   isFile(fs, q) =>
                       \E m \in Opn : /\ ops[m].op \in {"write", "copy"}
                                      /\ ops[m].dest = tempDir \o q

\* The names of the content root that a live run may create, move or remove: the
\* detected language folders, the staging and backup directories and the
\* directories named by the slugs this run collected.
FrameNames ==
    Range(languages) \cup {NEW_STRUCTURE, OLD_STRUCTURE_BACKUP}
        \cup {projects[n].slug : n \in 1..Len(projects)}

RootEntries(f) == {q[1] : q \in {r \in DOMAIN f : Len(r) = 1}}

\* C24: frame of a live migration: at every point of a live run, every entry the
\* content root had when the run began and that is neither a detected language
\* folder, nor _new_structure, nor _old_structure_backup, nor named by a
\* collected slug is at its place with the contents it had, and every entry of
\* the content root that the run has added bears one of those names.
C24_LiveRunFrame ==
    ~dryRun =>
        /\ \A e \in RootEntries(fs0) \ FrameNames : Untouched(<<e>>)
        /\ RootEntries(fs) \ RootEntries(fs0) \subseteq FrameNames

\* ------------------------------------------------------- listing and switcher
\* What the listing of the page's kind emits for language lang on the site as it
\* is: the anchors of generatePostsMarkdownList(lang) for a post, those of
\* generateProjectsMarkup(lang) for a project (none when the call throws).
Listing(lang) ==
    IF Kind = "post" THEN generatePostsMarkdownList(fs, dirOrder, languages, lang)
    ELSE IF generateProjectsMarkupOk(fs, dirOrder, languages, lang)
         THEN generateProjectsMarkup(fs, dirOrder, languages, lang)
         ELSE <<>>

ListedHrefs(lang) ==
    {Listing(lang)[n].href : n \in {m \in 1..Len(Listing(lang)) :
                                       Listing(lang)[m].folderSlug = LookupSlug}}

OfferedHrefs(lang) ==
    {Switcher[n].href : n \in {m \in 1..Len(Switcher) :
                                  Switcher[m].lang = lang /\ Switcher[m].link}}

\* C25: for a post or project rendered in a language in which it has a
\* document, and for every other configured language L in which it has a
\* document, the listing of L has an entry for the item exactly when the
\* switcher offers L, and the listing's href is the switcher's target.
C25_ListingMatchesSwitcher ==
    (/\ Converted /\ Kind \in {"post", "project"}
     /\ languages # <<>>
     /\ isFile(fs, DocPath(Kind, LookupSlug, PageLang))) =>
        \A L \in Range(languages) \ {PageLang} :
            isFile(fs, DocPath(Kind, LookupSlug, L)) =>
                ListedHrefs(L) = OfferedHrefs(L) /\ Cardinality(ListedHrefs(L)) = 1

\* ------------------------------------------------------ directory context
\* C26: whenever a call of convertMarkdownToHtml has ended, by returning or
\* because marked.parse threw, nested in another call or not, currentMdDir had
\* at its end the value it had when the call began.
C26_CurrentMdDirRestored ==
    ended.how # "none" => ended.after = ended.began

====
